---- MODULE Spec2Model ----
(***************************************************************************)
(* ftp-deploy: the `deploy` command.  One run loads the persisted snapshot *)
(* (.ftp/files.json), walks the local tree with a pool of workers that     *)
(* classify every visited path against the snapshot in a shared table,     *)
(* projects the table to a plan of remote actions and to the new snapshot, *)
(* applies the plan over one FTP session and persists the new snapshot.    *)
(***************************************************************************)
EXTENDS Integers, Sequences, FiniteSets, TLC

\* ------------------------------------------------------------------ bounds
\* Largest number of walker threads (--jobs) a run is started with.
Jobs == 2
\* Number of distinct byte contents a user file can have.
MaxContent == 2
\* Number of consecutive invocations of `deploy`.
MaxRuns == 2

\* ------------------------------------------------------------------- paths
\* A path is the sequence of its components.  The walk is rooted at the
\* default base path ".", so every visited path starts with ".".
Root == <<".">>
PathA == <<".", "a">>
PathD == <<".", "d">>
PathB == <<".", "d", "b">>
TrackingDir == <<".", ".ftp">>
TrackingFile == <<".", ".ftp", "files.json">>

UserPaths == {Root, PathA, PathD, PathB}
AllPaths == UserPaths \cup {TrackingDir, TrackingFile}

Ancestors(p) == {SubSeq(p, 1, n) : n \in 1..(Len(p) - 1)}

\* --------------------------------------------------------------- FileState
File(h) == [type |-> "File", hash |-> h]
Directory == [type |-> "Directory"]

FileModes == {"Untouched", "Created", "Updated", "Deleted"}

\* FileType::from(&FileState)
FileTypeOf(state) == IF state.type = "File" THEN "File" ELSE "Directory"

\* ------------------------------------------------------------ local tree
NoEntry == [kind |-> "none", content |-> 0]
DirEntry == [kind |-> "dir", content |-> 0]
FileEntry(c) == [kind |-> "file", content |-> c]

\* ------------------------------------------------------ snapshot file I/O
\* serde_json of FilesTracking: one member per path, the state as
\* {"File": "<hex>"} or "Directory".
StateToJson(state) ==
    IF state.type = "File" THEN <<"File", state.hash>> ELSE <<"Directory">>

StateFromJson(j) == IF j[1] = "File" THEN File(j[2]) ELSE Directory

Serialize(tracking) == {<<p, StateToJson(tracking[p])>> : p \in DOMAIN tracking}

\* A reader that drops the "Directory" members.
DeserializeFilesOnly(members) ==
    [p \in {m[1] : m \in {x \in members : x[2][1] = "File"}} |->
        StateFromJson((CHOOSE m \in members : m[1] = p)[2])]

Deserialize(members) ==
    [p \in {m[1] : m \in members} |->
        StateFromJson((CHOOSE m \in members : m[1] = p)[2])]

\* The three conditions of .ftp/files.json: missing, present but not
\* readable as a snapshot, present with a serialized snapshot.
Absent == [exists |-> FALSE, valid |-> FALSE, members |-> {}]
Corrupt == [exists |-> TRUE, valid |-> FALSE, members |-> {}]
Stored(tracking) == [exists |-> TRUE, valid |-> TRUE, members |-> Serialize(tracking)]

\* FilesTracking::default()
EmptyTracking == [p \in {} |-> Directory]

VARIABLES
    tree,       \* user part of the local tree: UserPaths -> entry
    ignored,    \* paths the ignore matcher excludes from the walk
    denied,     \* directories whose listing fails during the walk
    disk,       \* .ftp/files.json as it is on disk
    digests,    \* the byte contents hashed so far (digest = position)
    run,        \* number of invocations started
    pc,         \* position of the current run
    jobs,       \* --jobs
    force,      \* --force
    dry,        \* --dry
    noUpload,   \* --no-upload
    disk0,      \* .ftp/files.json when the current run started
    loaded,     \* files_tracking returned by load_or_create
    files,      \* FileWalk.files: path -> (state, mode)
    walk,       \* results the parallel walker has still to yield
    wk,         \* per walker thread: position inside the closure / update
    updates,    \* Vec<FileUpdate> built by from_files
    newSnap,    \* files_tracking built in run (the new snapshot)
    result,     \* outcome of the current run
    cause,      \* the call whose error ended the run
    prev,       \* the previous run returned Ok with dry = force = false
    credsBase,  \* FtpCreds.base_path, as components
    idx,        \* position of upload_files' loop in updates
    status,     \* per plan item: how far the loop has taken it
    remoteCwd,  \* working directory of the FTP session
    remoteOps,  \* FTP commands issued by the current run
    remoteFs,   \* the remote store: path from "/" -> "File" or "Directory"
    remoteFs0   \* the remote store when the current run started

envVars == <<tree, ignored, denied, credsBase>>
argVars == <<jobs, force, dry, noUpload>>
scanVars == <<files, walk, wk>>
planVars == <<updates, newSnap>>
ftpVars == <<idx, status, remoteCwd, remoteOps, remoteFs>>
vars == <<tree, ignored, denied, disk, digests, run, pc, jobs, force, dry,
          noUpload, disk0, loaded, files, walk, wk, updates, newSnap, result,
          cause, prev, credsBase, idx, status, remoteCwd, remoteOps, remoteFs,
          remoteFs0>>

\* ---------------------------------------------------- tree as the walk sees it
Exists(p) ==
    IF p \in UserPaths THEN tree[p].kind # "none" ELSE disk.exists

\* Path::is_file
IsFile(p) ==
    IF p \in UserPaths THEN tree[p].kind = "file" ELSE p = TrackingFile /\ disk.exists

\* The bytes fs::File::open + io::copy read.
Bytes(p) ==
    IF p \in UserPaths
    THEN [id |-> tree[p].content, members |-> {}]
    ELSE [id |-> 0, members |-> disk.members]

UserBytes(c) == [id |-> c, members |-> {}]

\* Sha256: modelled collision free, a digest is the position of the bytes in
\* the table of contents hashed so far.
HasDigest(reg, bytes) == \E i \in 1..Len(reg) : reg[i] = bytes

Sha256(reg, bytes) ==
    IF HasDigest(reg, bytes)
    THEN CHOOSE i \in 1..Len(reg) : reg[i] = bytes
    ELSE Len(reg) + 1

Hashed(reg, bytes) == IF HasDigest(reg, bytes) THEN reg ELSE Append(reg, bytes)

\* WalkBuilder::new(base_path).add_custom_ignore_filename(..).hidden(false):
\* every existing entry under the base path that the ignore matcher does not
\* exclude and whose ancestors could be listed.
Reachable(p) ==
    /\ Exists(p)
    /\ p \notin ignored
    /\ \A q \in Ancestors(p) : Exists(q) /\ q \notin ignored /\ q \notin denied

WalkResults ==
    {[ok |-> TRUE, path |-> p] : p \in {q \in AllPaths : Reachable(q)}}
    \cup {[ok |-> FALSE, path |-> p] : p \in {q \in denied : Reachable(q)}}

\* ------------------------------------------------------------- FileWalk
\* Seeding that forgets the pessimistic tag.
FileWalkFromUntouched(tracking) ==
    [p \in DOMAIN tracking |-> [state |-> tracking[p], mode |-> "Untouched"]]

\* impl From<FilesTracking> for FileWalk
FileWalkFrom(tracking) ==
    [p \in DOMAIN tracking |-> [state |-> tracking[p], mode |-> "Deleted"]]

\* An insertion that drops every other key.
MapReplace(map, key, value) == [k \in {key} |-> value]

\* HashMap::insert
MapInsert(map, key, value) ==
    [k \in DOMAIN map \cup {key} |-> IF k = key THEN value ELSE map[k]]

\* FileWalk::insert_update
InsertUpdateTable(table, path, state, mode) ==
    MapInsert(table, path, [state |-> state, mode |-> mode])

\* The comparison with the old state left out.
PresentModeNoCompare(isForced, old, state) ==
    IF isForced THEN "Updated" ELSE "Untouched"

\* The force flag left out.
PresentModeNoForce(isForced, old, state) ==
    IF old # state THEN "Updated" ELSE "Untouched"

\* A comparison of the hashes only, blind to the File/Directory variant.
PresentModeHashOnly(isForced, old, state) ==
    IF isForced \/ (old.type = "File" /\ state.type = "File" /\ old.hash # state.hash)
    THEN "Updated" ELSE "Untouched"

\* FileWalk::update, the mode decided once the key is known to be present
PresentMode(isForced, old, state) ==
    IF isForced \/ old # state THEN "Updated" ELSE "Untouched"

\* FileWalk::update run without interruption on a table
UpdateTable(table, path, state, isForced) ==
    InsertUpdateTable(table, path, state,
                      IF path \in DOMAIN table
                      THEN PresentMode(isForced, table[path].state, state)
                      ELSE "Created")

IdleWorker == [pc |-> "idle", path |-> Root, state |-> Directory, mode |-> "Created"]

\* ------------------------------------------------------------ FileUpdate
UpdateTypeOf(mode) ==
    IF mode \in {"Created", "Updated"} THEN "CreateOrUpdate" ELSE "Delete"

\* A projection that drops no entry.
PlannedAll(mode) == TRUE

Planned(mode) == mode \in {"Created", "Updated", "Deleted"}

\* FileUpdate::from_files, as the set of the updates it collects
FromFiles(table) ==
    {[file |-> p,
      file_type |-> FileTypeOf(table[p].state),
      update_type |-> UpdateTypeOf(table[p].mode)] :
        p \in {q \in DOMAIN table : Planned(table[q].mode)}}

\* The orders in which a HashMap iteration can list a set of updates.
Orders(S) ==
    {s \in [1..Cardinality(S) -> S] : \A i, j \in DOMAIN s : i # j => s[i] # s[j]}

\* A filter that keeps the entries still tagged Deleted.
KeptAll(mode) == TRUE

\* the filter_map of DeployCommand::run that builds the new FilesTracking
Kept(mode) == mode # "Deleted"

NewTracking(table) ==
    [p \in {q \in DOMAIN table : Kept(table[q].mode)} |-> table[p].state]

\* ------------------------------------------------------- remote paths
Last(s) == s[Len(s)]
ButLast(s) == SubSeq(s, 1, Len(s) - 1)

\* Path::file_name is None for a path that ends in "." or ".." or is a root
HasFileName(p) == p # <<>> /\ Last(p) \notin {".", "..", "/"}

\* FtpCreds::ftp_path: PathBuf::join (an absolute argument replaces the base)
FtpPath(base, p) == IF p # <<>> /\ p[1] = "/" THEN p ELSE base \o p

\* Path::components: a "." is kept only in the first position
Components(p) ==
    IF p = <<>> THEN <<>> ELSE <<p[1]>> \o SelectSeq(Tail(p), LAMBDA c : c # ".")

\* The components cwd_or_create_recursive walks for ftp_path.parent(); a
\* path without parent is answered by cwd("/").
NavSteps(base, p) ==
    LET comps == Components(FtpPath(base, p))
    IN  IF comps = <<>> \/ Last(comps) = "/" THEN <<"/">> ELSE ButLast(comps)

\* The working directory after the commands issued for one component.
CwdStep(cwd, c) ==
    IF c = "/" THEN <<>>
    ELSE IF c = "." THEN cwd
    ELSE IF c = ".." THEN ButLast(cwd)
    ELSE Append(cwd, c)

RECURSIVE CwdAfter(_, _)
CwdAfter(cwd, comps) ==
    IF comps = <<>> THEN cwd ELSE CwdAfter(CwdStep(cwd, Head(comps)), Tail(comps))

\* The FTP commands cwd_or_create_recursive issues for the components.
NavOps(comps) ==
    (IF \E k \in DOMAIN comps : comps[k] # "." THEN {"cwd"} ELSE {})
    \cup (IF \E k \in DOMAIN comps : comps[k] \notin {"/", ".", ".."}
          THEN {"mkdir"} ELSE {})

\* The FTP command of the match on (update_type, file_type).
ActionOp(u) ==
    IF u.update_type = "Delete"
    THEN IF u.file_type = "File" THEN "rm" ELSE "rmdir"
    ELSE IF u.file_type = "Directory" THEN "mkdir" ELSE "put"

\* ------------------------------------------------------- remote store
EmptyRemote == [q \in {} |-> "Directory"]

\* The remote path an FTP session that starts in "/" resolves ftp_path to.
RemotePath(base, p) == CwdAfter(<<>>, Components(FtpPath(base, p)))

IsUnder(dir, q) == Len(q) > Len(dir) /\ SubSeq(q, 1, Len(dir)) = dir

\* The remote store after the `let _ = self.mkdir(name)` of every Normal
\* component: the server creates the directory when nothing has the name.
RECURSIVE NavFs(_, _, _)
NavFs(fs, cwd, comps) ==
    IF comps = <<>> THEN fs
    ELSE LET c == Head(comps)
             target == CwdStep(cwd, c)
         IN  NavFs(IF c \notin {"/", ".", ".."} /\ target \notin DOMAIN fs
                   THEN MapInsert(fs, target, "Directory")
                   ELSE fs,
                   target, Tail(comps))

\* Every self.cwd(..) of the components is accepted: the directory it
\* names exists on the server.
NavAccepted(fs, cwd, comps) ==
    \A k \in DOMAIN comps :
        LET target == CwdAfter(cwd, SubSeq(comps, 1, k))
        IN  IF target = <<>> THEN TRUE
            ELSE NavFs(fs, cwd, comps)[target] = "Directory"

\* The server accepts rm / rmdir / mkdir / put on `target`.
ServerAccepts(fs, op, target) ==
    IF op = "mkdir" THEN target \notin DOMAIN fs
    ELSE IF op = "put" THEN ~(target \in DOMAIN fs /\ fs[target] = "Directory")
    ELSE IF op = "rm" THEN target \in DOMAIN fs /\ fs[target] = "File"
    ELSE /\ target \in DOMAIN fs
         /\ fs[target] = "Directory"
         /\ \A q \in DOMAIN fs : ~IsUnder(target, q)

\* The remote store after an accepted command.
ServerApply(fs, op, target) ==
    IF op = "mkdir" THEN MapInsert(fs, target, "Directory")
    ELSE IF op = "put" THEN MapInsert(fs, target, "File")
    ELSE [q \in DOMAIN fs \ {target} |-> fs[q]]

\* The remote copy of a snapshot below the remote base path, as pairs of
\* remote path and type; the walk root is the base directory itself.
SnapshotImage(base, tracking) ==
    {<<RemotePath(base, p), tracking[p].type>> : p \in DOMAIN tracking \ {Root}}

RemoteUnder(base, fs) ==
    {<<q, fs[q]>> : q \in {x \in DOMAIN fs : IsUnder(RemotePath(base, Root), x)}}

\* A remote store that holds the snapshot under the base path.
RemoteOf(base, tracking) ==
    LET image == SnapshotImage(base, tracking)
        held == {e[1] : e \in image}
        above == UNION {Ancestors(q) : q \in held} \ ({<<>>} \cup held)
    IN  [q \in held \cup above |->
            IF q \in held THEN (CHOOSE e \in image : e[1] = q)[2] ELSE "Directory"]

\* ------------------------------------------------------------------ runs
Workers == 1..jobs

Positions == {"idle", "load", "walk", "scan", "plan", "decide", "connect",
              "cwdroot", "upload", "write"}

Statuses == {"Pending", "Navigating", "Executing", "Succeeded", "Failed", "Skipped"}

TypeOK ==
    /\ pc \in Positions
    /\ run \in 0..MaxRuns
    /\ result \in {"none", "running", "ok", "err", "panic"}
    /\ DOMAIN tree = UserPaths
    /\ DOMAIN files \subseteq AllPaths
    /\ \A p \in DOMAIN files : files[p].mode \in FileModes
    /\ DOMAIN status = DOMAIN updates
    /\ \A i \in DOMAIN status : status[i] \in Statuses
    /\ remoteOps \subseteq {"connect", "login", "cwd", "mkdir", "put", "rm", "rmdir"}
    /\ \A q \in DOMAIN remoteFs : remoteFs[q] \in {"File", "Directory"}
    /\ \A q \in DOMAIN remoteFs :
          \A a \in Ancestors(q) \ {<<>>} : a \in DOMAIN remoteFs /\ remoteFs[a] = "Directory"

\* DeployCommand::run is invoked with its arguments.
Invoke(f, d, n) ==
    /\ pc = "idle"
    /\ run < MaxRuns
    /\ run' = run + 1
    /\ force' = f
    /\ dry' = d
    /\ noUpload' = n
    /\ disk0' = disk
    /\ prev' = (result = "ok" /\ ~dry /\ ~force)
    /\ pc' = "load"
    /\ result' = "running"
    /\ cause' = "none"
    /\ loaded' = EmptyTracking
    /\ files' = EmptyTracking
    /\ walk' = {}
    /\ wk' = [w \in Workers |-> IdleWorker]
    /\ updates' = <<>>
    /\ newSnap' = EmptyTracking
    /\ idx' = 0
    /\ status' = <<>>
    /\ remoteCwd' = <<>>
    /\ remoteOps' = {}
    /\ remoteFs0' = remoteFs
    /\ UNCHANGED <<envVars, disk, digests, jobs, remoteFs>>

\* The run returns `outcome`; an error names the call that returned it.
Ends(outcome, call) ==
    /\ pc' = "idle"
    /\ result' = outcome
    /\ cause' = call

Running == UNCHANGED <<result, cause>>

\* What no step of a run changes.
RunFrame == UNCHANGED <<envVars, run, argVars, disk0, prev, remoteFs0>>

\* FilesTracking::load_or_create returns Ok.
LoadOrCreate ==
    /\ pc = "load"
    /\ IF disk.exists
       THEN /\ disk.valid
            /\ loaded' = Deserialize(disk.members)
            /\ disk' = disk
       ELSE /\ loaded' = EmptyTracking
            /\ disk' = Stored(EmptyTracking)
    /\ pc' = "walk"
    /\ Running
    /\ RunFrame
    /\ UNCHANGED <<digests, scanVars, planVars, ftpVars>>

\* FilesTracking::load_or_create returns Err.
LoadOrCreateErr ==
    /\ pc = "load"
    /\ IF disk.exists
       THEN \* File::open or serde_json::from_reader fails
            /\ disk' = disk
            /\ Ends("err", "load")
       ELSE \* create_dir_all or File::create fails: nothing is created;
            \* to_writer fails: the created file holds no snapshot
            /\ disk' \in {Absent, Corrupt}
            /\ Ends("err", "create")
    /\ RunFrame
    /\ UNCHANGED <<digests, loaded, scanVars, planVars, ftpVars>>

\* collect_files up to walker.run: the table is seeded from the snapshot
\* and the parallel walker is built.
StartWalk ==
    /\ pc = "walk"
    /\ files' = FileWalkFrom(loaded)
    /\ walk' = WalkResults
    /\ pc' = "scan"
    /\ Running
    /\ RunFrame
    /\ UNCHANGED <<disk, digests, loaded, wk, planVars, ftpVars>>

ScanFrame ==
    /\ Running
    /\ RunFrame
    /\ UNCHANGED <<disk, loaded, planVars, ftpVars>>

\* The walker hands an Err result to a thread: the closure returns Continue.
VisitErr(w) ==
    /\ pc = "scan"
    /\ wk[w].pc = "idle"
    /\ \E r \in walk :
          /\ ~r.ok
          /\ walk' = walk \ {r}
    /\ UNCHANGED <<files, wk, pc, digests>>
    /\ ScanFrame

\* The state the closure computes for an entry.
StateOf(reg, path) ==
    IF IsFile(path) THEN File(Sha256(reg, Bytes(path))) ELSE Directory

\* The walker hands an entry to a thread, which computes its state and
\* enters FileWalk::update.
Visit(w) ==
    /\ pc = "scan"
    /\ wk[w].pc = "idle"
    /\ \E r \in walk :
          /\ r.ok
          /\ walk' = walk \ {r}
          /\ digests' = IF IsFile(r.path) THEN Hashed(digests, Bytes(r.path))
                        ELSE digests
          /\ wk' = [wk EXCEPT ![w] =
                [pc |-> "contains", path |-> r.path,
                 state |-> StateOf(digests, r.path), mode |-> "Created"]]
    /\ UNCHANGED <<files, pc>>
    /\ ScanFrame

\* fs::File::open(path).unwrap() or io::copy(..).unwrap() panics.
VisitPanic(w) ==
    /\ pc = "scan"
    /\ wk[w].pc = "idle"
    /\ \E r \in walk : r.ok /\ IsFile(r.path)
    /\ Ends("panic", "hash")
    /\ RunFrame
    /\ UNCHANGED <<disk, digests, loaded, scanVars, planVars, ftpVars>>

\* self.files.read().unwrap().contains_key(path); with force the || does
\* not evaluate the second read.
ContainsKey(w) ==
    /\ pc = "scan"
    /\ wk[w].pc = "contains"
    /\ wk' = [wk EXCEPT ![w] =
                IF wk[w].path \notin DOMAIN files
                THEN [@ EXCEPT !.pc = "insert", !.mode = "Created"]
                ELSE IF force
                THEN [@ EXCEPT !.pc = "insert",
                               !.mode = PresentMode(force, wk[w].state,
                                                     wk[w].state)]
                ELSE [@ EXCEPT !.pc = "get"]]
    /\ UNCHANGED <<files, walk, pc, digests>>
    /\ ScanFrame

\* self.files.read().unwrap().get(path).unwrap().0 != state; the unwrap
\* panics when the key is gone.
GetState(w) ==
    /\ pc = "scan"
    /\ wk[w].pc = "get"
    /\ IF wk[w].path \in DOMAIN files
       THEN /\ wk' = [wk EXCEPT ![w].pc = "insert",
                        ![w].mode = PresentMode(force, files[wk[w].path].state,
                                                wk[w].state)]
            /\ UNCHANGED pc
            /\ Running
       ELSE /\ Ends("panic", "get")
            /\ UNCHANGED wk
    /\ RunFrame
    /\ UNCHANGED <<disk, digests, loaded, files, walk, planVars, ftpVars>>

\* An insertion into the table as it was seeded, which loses the records
\* the other threads have inserted.
InsertUpdateLost(w) ==
    /\ pc = "scan"
    /\ wk[w].pc = "insert"
    /\ files' = InsertUpdateTable(FileWalkFrom(loaded), wk[w].path, wk[w].state,
                                  wk[w].mode)
    /\ wk' = [wk EXCEPT ![w] = IdleWorker]
    /\ UNCHANGED <<walk, pc, digests>>
    /\ ScanFrame

\* self.insert_update(path, state, mode)
InsertUpdate(w) ==
    /\ pc = "scan"
    /\ wk[w].pc = "insert"
    /\ files' = InsertUpdateTable(files, wk[w].path, wk[w].state, wk[w].mode)
    /\ wk' = [wk EXCEPT ![w] = IdleWorker]
    /\ UNCHANGED <<walk, pc, digests>>
    /\ ScanFrame

\* walker.run returns and collect_files hands the table back.
WalkDone ==
    /\ pc = "scan"
    /\ walk = {}
    /\ \A w \in Workers : wk[w].pc = "idle"
    /\ pc' = "plan"
    /\ Running
    /\ RunFrame
    /\ UNCHANGED <<disk, digests, loaded, scanVars, planVars, ftpVars>>

\* FileUpdate::from_files(&files) and the new FilesTracking.
Plan ==
    /\ pc = "plan"
    /\ updates' \in Orders(FromFiles(files))
    /\ status' = [i \in DOMAIN updates' |-> "Pending"]
    /\ newSnap' = NewTracking(files)
    /\ pc' = "decide"
    /\ Running
    /\ RunFrame
    /\ UNCHANGED <<disk, digests, loaded, scanVars, idx, remoteCwd, remoteOps,
                   remoteFs>>

\* The dry flag left out.
NextPositionNoDry(isDry, isNoUpload, plan) ==
    IF ~isNoUpload /\ plan # <<>> THEN "connect" ELSE "write"

\* The no_upload flag left out.
NextPositionNoGate(isDry, isNoUpload, plan) ==
    IF isDry THEN "idle"
    ELSE IF plan # <<>> THEN "connect"
    ELSE "write"

\* if !self.dry { if !self.no_upload && !updates.is_empty() {..} else {..} }
NextPosition(isDry, isNoUpload, plan) ==
    IF isDry THEN "idle"
    ELSE IF ~isNoUpload /\ plan # <<>> THEN "connect"
    ELSE "write"

Decide ==
    /\ pc = "decide"
    /\ pc' = NextPosition(dry, noUpload, updates)
    /\ result' = IF pc' = "idle" THEN "ok" ELSE result
    /\ UNCHANGED cause
    /\ RunFrame
    /\ UNCHANGED <<disk, digests, loaded, scanVars, planVars, ftpVars>>

UploadFrame ==
    /\ RunFrame
    /\ UNCHANGED <<disk, digests, loaded, scanVars, planVars>>

\* creds.open_stream()?: FtpStream::connect, then login
OpenStream ==
    /\ pc = "connect"
    /\ remoteOps' = remoteOps \cup {"connect", "login"}
    /\ pc' = "cwdroot"
    /\ Running
    /\ UploadFrame
    /\ UNCHANGED <<idx, status, remoteCwd, remoteFs>>

\* A failed connection reported only after the snapshot was persisted.
OpenStreamErrWritten ==
    /\ pc = "connect"
    /\ remoteOps' = remoteOps \cup {"connect"}
    /\ disk' = Stored(newSnap)
    /\ Ends("err", "connect")
    /\ RunFrame
    /\ UNCHANGED <<digests, loaded, scanVars, planVars, idx, status, remoteCwd,
                   remoteFs>>

OpenStreamErr ==
    /\ pc = "connect"
    /\ \/ /\ remoteOps' = remoteOps \cup {"connect"}
          /\ Ends("err", "connect")
       \/ /\ remoteOps' = remoteOps \cup {"connect", "login"}
          /\ Ends("err", "login")
    /\ UploadFrame
    /\ UNCHANGED <<idx, status, remoteCwd, remoteFs>>

\* ftp_stream.cwd("/")?
CwdRoot ==
    /\ pc = "cwdroot"
    /\ remoteOps' = remoteOps \cup {"cwd"}
    /\ remoteCwd' = <<>>
    /\ idx' = 1
    /\ pc' = "upload"
    /\ Running
    /\ UploadFrame
    /\ UNCHANGED <<status, remoteFs>>

CwdRootErr ==
    /\ pc = "cwdroot"
    /\ remoteOps' = remoteOps \cup {"cwd"}
    /\ Ends("err", "cwd")
    /\ UploadFrame
    /\ UNCHANGED <<idx, status, remoteCwd, remoteFs>>

AtItem(st) == pc = "upload" /\ idx \in DOMAIN updates /\ status[idx] = st

\* The loop takes the next update: one without file name is skipped.
BeginItem ==
    /\ AtItem("Pending")
    /\ IF HasFileName(updates[idx].file)
       THEN /\ status' = [status EXCEPT ![idx] = "Navigating"]
            /\ idx' = idx
       ELSE /\ status' = [status EXCEPT ![idx] = "Skipped"]
            /\ idx' = idx + 1
    /\ UNCHANGED <<pc, remoteCwd, remoteOps, remoteFs>>
    /\ Running
    /\ UploadFrame

\* ftp_stream.cwd_or_create_recursive(ftp_path.parent()) returns Ok.
Navigate ==
    /\ AtItem("Navigating")
    /\ LET comps == NavSteps(credsBase, updates[idx].file)
       IN  /\ NavAccepted(remoteFs, remoteCwd, comps)
           /\ remoteCwd' = CwdAfter(remoteCwd, comps)
           /\ remoteFs' = NavFs(remoteFs, remoteCwd, comps)
           /\ remoteOps' = remoteOps \cup NavOps(comps)
    /\ status' = [status EXCEPT ![idx] = "Executing"]
    /\ UNCHANGED <<pc, idx>>
    /\ Running
    /\ UploadFrame

\* A cwd of cwd_or_create_recursive fails: the ? returns the error from
\* upload_files.
NavigateErr ==
    /\ AtItem("Navigating")
    /\ LET comps == NavSteps(credsBase, updates[idx].file)
       IN  \E k \in DOMAIN comps :
              /\ comps[k] # "."
              /\ NavAccepted(remoteFs, remoteCwd, SubSeq(comps, 1, k - 1))
              /\ remoteCwd' = CwdAfter(remoteCwd, SubSeq(comps, 1, k - 1))
              /\ remoteFs' \in {NavFs(remoteFs, remoteCwd, SubSeq(comps, 1, k - 1)),
                                NavFs(remoteFs, remoteCwd, SubSeq(comps, 1, k))}
              /\ remoteOps' = remoteOps \cup NavOps(SubSeq(comps, 1, k))
    /\ status' = [status EXCEPT ![idx] = "Failed"]
    /\ Ends("err", "navigate")
    /\ UNCHANGED idx
    /\ UploadFrame

\* An action whose error is returned with ? instead of printed.
ExecuteAborting ==
    /\ AtItem("Executing")
    /\ remoteOps' = remoteOps \cup {ActionOp(updates[idx])}
    /\ LET op == ActionOp(updates[idx])
           target == Append(remoteCwd, Last(updates[idx].file))
       IN  \/ /\ ServerAccepts(remoteFs, op, target)
              /\ remoteFs' = ServerApply(remoteFs, op, target)
              /\ status' = [status EXCEPT ![idx] = "Succeeded"]
              /\ idx' = idx + 1
              /\ UNCHANGED pc
              /\ Running
           \/ /\ remoteFs' = remoteFs
              /\ status' = [status EXCEPT ![idx] = "Failed"]
              /\ idx' = idx + 1
              /\ Ends("err", "action")
    /\ UNCHANGED remoteCwd
    /\ UploadFrame

\* The action of one update; its error is printed and the loop goes on.
Execute ==
    /\ AtItem("Executing")
    /\ remoteOps' = remoteOps \cup {ActionOp(updates[idx])}
    /\ LET op == ActionOp(updates[idx])
           target == Append(remoteCwd, Last(updates[idx].file))
       IN  \E ok \in BOOLEAN :
              /\ ok => ServerAccepts(remoteFs, op, target)
              /\ remoteFs' = IF ok THEN ServerApply(remoteFs, op, target)
                              ELSE remoteFs
              /\ status' = [status EXCEPT ![idx] =
                                IF ok THEN "Succeeded" ELSE "Failed"]
    /\ idx' = idx + 1
    /\ UNCHANGED <<pc, remoteCwd>>
    /\ Running
    /\ UploadFrame

\* File::open(&file)? fails: the error is returned from upload_files.
ExecuteOpenErr ==
    /\ AtItem("Executing")
    /\ ActionOp(updates[idx]) = "put"
    /\ status' = [status EXCEPT ![idx] = "Failed"]
    /\ Ends("err", "open")
    /\ UNCHANGED <<idx, remoteCwd, remoteOps, remoteFs>>
    /\ UploadFrame

\* The loop is over: upload_files returns Ok(()).
UploadDone ==
    /\ pc = "upload"
    /\ idx = Len(updates) + 1
    /\ pc' = "write"
    /\ Running
    /\ UploadFrame
    /\ UNCHANGED ftpVars

\* files_tracking.write(&base_path) returns Ok.
Write ==
    /\ pc = "write"
    /\ disk' = Stored(newSnap)
    /\ Ends("ok", "none")
    /\ RunFrame
    /\ UNCHANGED <<digests, loaded, scanVars, planVars, ftpVars>>

\* create_dir_all or File::create fails: the file is as it was; to_writer
\* fails: File::create has truncated it.
WriteErr ==
    /\ pc = "write"
    /\ disk' \in {disk, Corrupt}
    /\ Ends("err", "write")
    /\ RunFrame
    /\ UNCHANGED <<digests, loaded, scanVars, planVars, ftpVars>>

\* ---------------------------------------------------------- initial states
InitialDigests == [c \in 1..MaxContent |-> UserBytes(c)]

Trees ==
    {t \in [UserPaths -> {NoEntry, DirEntry} \cup {FileEntry(c) : c \in 1..MaxContent}] :
        /\ t[Root] = DirEntry
        /\ <<t[PathD], t[PathB]>> \in {<<NoEntry, NoEntry>>, <<DirEntry, FileEntry(1)>>}}

Tracking(D, stateA) ==
    [p \in D |-> IF p = PathA THEN stateA ELSE IF p = PathB THEN File(1) ELSE Directory]

Snapshots ==
    {Tracking(D, st) : D \in {X \cup Y : X \in {{}, {PathA}},
                                         Y \in {{}, {Root}, {Root, PathD, PathB}}},
                       st \in {File(1), Directory}}

IgnoreTracking == {TrackingDir, TrackingFile}

InitCommon ==
    /\ digests = InitialDigests
    /\ pc = "idle"
    /\ force = FALSE
    /\ dry = FALSE
    /\ noUpload = FALSE
    /\ disk0 = Absent
    /\ loaded = EmptyTracking
    /\ files = EmptyTracking
    /\ walk = {}
    /\ wk = [w \in 1..jobs |-> IdleWorker]
    /\ updates = <<>>
    /\ newSnap = EmptyTracking
    /\ result = "none"
    /\ cause = "none"
    /\ prev = FALSE
    /\ idx = 0
    /\ status = <<>>
    /\ remoteCwd = <<>>
    /\ remoteOps = {}
    /\ remoteFs = IF disk.valid THEN RemoteOf(credsBase, Deserialize(disk.members))
                  ELSE EmptyRemote
    /\ remoteFs0 = remoteFs

\* The scan of one invocation, over every tree and prior snapshot.
InitScan ==
    /\ tree \in Trees
    /\ \E e \in {<<IgnoreTracking, {}>>,
                  <<IgnoreTracking \cup {PathA}, {}>>,
                  <<IgnoreTracking, {PathD}>>} :
          ignored = e[1] /\ denied = e[2]
    /\ disk \in {Stored(s) : s \in Snapshots}
    /\ credsBase = <<>>
    /\ jobs = Jobs
    /\ run = MaxRuns - 1
    /\ InitCommon

NextScan ==
    \/ \E f \in BOOLEAN : Invoke(f, TRUE, FALSE)
    \/ LoadOrCreate
    \/ LoadOrCreateErr
    \/ StartWalk
    \/ \E w \in Workers : VisitErr(w)
    \/ \E w \in Workers : Visit(w)
    \/ \E w \in Workers : VisitPanic(w)
    \/ \E w \in Workers : ContainsKey(w)
    \/ \E w \in Workers : GetState(w)
    \/ \E w \in Workers : InsertUpdate(w)
    \/ WalkDone
    \/ Plan

SpecScan == InitScan /\ [][NextScan]_vars

\* Consecutive invocations on one tree.
TreeOf(paths) ==
    [p \in UserPaths |->
        IF p \notin paths THEN NoEntry
        ELSE IF p \in {Root, PathD} THEN DirEntry
        ELSE FileEntry(1)]

RunEnvs ==
    {<<TreeOf({Root, PathD, PathB}), IgnoreTracking, Absent>>,
     <<TreeOf({Root, PathD, PathB}), IgnoreTracking, Corrupt>>,
     <<TreeOf({Root, PathD, PathB}), IgnoreTracking, Stored(EmptyTracking)>>,
     <<TreeOf({Root}), IgnoreTracking, Stored(Tracking({PathA}, File(1)))>>,
     <<TreeOf({Root, PathA}), IgnoreTracking, Stored(Tracking({PathA}, Directory))>>,
     <<TreeOf({Root}), {}, Absent>>,
     <<TreeOf({Root}), {}, Stored(EmptyTracking)>>}

Init ==
    /\ \E e \in RunEnvs : tree = e[1] /\ ignored = e[2] /\ disk = e[3]
    /\ denied = {}
    /\ credsBase \in {<<"/", "www">>, <<"www">>, <<>>}
    /\ jobs \in 1..Jobs
    /\ run = 0
    /\ InitCommon

Next ==
    \/ \E f, d, n \in BOOLEAN : Invoke(f, d, n)
    \/ LoadOrCreate
    \/ LoadOrCreateErr
    \/ StartWalk
    \/ \E w \in Workers : Visit(w)
    \/ \E w \in Workers : VisitPanic(w)
    \/ \E w \in Workers : ContainsKey(w)
    \/ \E w \in Workers : GetState(w)
    \/ \E w \in Workers : InsertUpdate(w)
    \/ WalkDone
    \/ Plan
    \/ Decide
    \/ OpenStream
    \/ OpenStreamErr
    \/ CwdRoot
    \/ CwdRootErr
    \/ BeginItem
    \/ Navigate
    \/ NavigateErr
    \/ Execute
    \/ ExecuteOpenErr
    \/ UploadDone
    \/ Write
    \/ WriteErr

Spec == Init /\ [][Next]_vars

\* ------------------------------------------------------------ properties
\* The paths the walker has handed to the closure as Ok entries.
Visited == {r.path : r \in {x \in WalkResults \ walk : x.ok}}

\* Number of updates of one type the plan holds for a path.
CountOf(p, type) ==
    Cardinality({i \in DOMAIN updates :
                    updates[i].file = p /\ updates[i].update_type = type})

\* from_files and the new FilesTracking have been computed.
PlanBuilt == pc = "decide"

\* C1: deletion completeness.  In the plan from_files builds, every path of
\* the prior snapshot that the walk did not visit has exactly one Delete,
\* and no visited path has a Delete.
C1_DeletionCompleteness ==
    PlanBuilt =>
        \A p \in AllPaths :
            /\ (p \in DOMAIN loaded /\ p \notin Visited) => CountOf(p, "Delete") = 1
            /\ p \in Visited => CountOf(p, "Delete") = 0

C1_Witness ==
    /\ PlanBuilt
    /\ jobs >= 2
    /\ \E p \in DOMAIN loaded : p \notin Visited /\ CountOf(p, "Delete") = 1
    /\ \E p \in DOMAIN loaded : p \in Visited

\* C2: change detection.  Without force, a visited path of the prior
\* snapshot has exactly one CreateOrUpdate (and nothing else) when the state
\* the scan computes differs from the snapshot's, and no update when equal.
C2_ChangeDetection ==
    (PlanBuilt /\ ~force) =>
        \A p \in Visited \cap DOMAIN loaded :
            /\ CountOf(p, "Delete") = 0
            /\ CountOf(p, "CreateOrUpdate") =
                  IF StateOf(digests, p) # loaded[p] THEN 1 ELSE 0

C2_Witness ==
    /\ PlanBuilt
    /\ ~force
    /\ jobs >= 2
    /\ \E p \in Visited \cap DOMAIN loaded : StateOf(digests, p) # loaded[p]
    /\ \E p \in Visited \cap DOMAIN loaded : StateOf(digests, p) = loaded[p]

\* C3: force override.  With force every visited path, in the prior snapshot
\* or not, equal to it or not, has exactly one CreateOrUpdate and none is
\* classified Untouched.
C3_ForceOverride ==
    (PlanBuilt /\ force) =>
        \A p \in Visited :
            /\ CountOf(p, "CreateOrUpdate") = 1
            /\ files[p].mode # "Untouched"

C3_Witness ==
    /\ PlanBuilt
    /\ force
    /\ \E p \in Visited \cap DOMAIN loaded : StateOf(digests, p) = loaded[p]
    /\ \E p \in Visited : p \notin DOMAIN loaded

\* The run has returned.
Returned == pc = "idle" /\ result \in {"ok", "err"}

\* C4: idempotence.  A run with dry = force = false that follows a completed
\* run with dry = force = false, the tree untouched by anything but the runs,
\* plans nothing and leaves the persisted snapshot as the first run wrote it.
C4_Idempotence ==
    (Returned /\ result = "ok" /\ ~dry /\ ~force /\ prev) =>
        (updates = <<>> /\ disk = disk0)

\* The same, for a walk that the ignore matcher keeps out of .ftp/
C4_IdempotenceIgnoringTracking ==
    (Returned /\ result = "ok" /\ ~dry /\ ~force /\ prev /\ TrackingFile \in ignored) =>
        (updates = <<>> /\ disk = disk0)

\* A run has been started.
Started == result # "none"

\* C5 as stated: a dry run issues no FTP command and leaves .ftp/files.json
\* exactly as it was when the run started, a missing file included.
C5_DryRunPure ==
    (Started /\ dry) => (remoteOps = {} /\ disk = disk0)

\* C5, amended: a dry run issues no FTP command and leaves an existing
\* snapshot file exactly as it was; a missing snapshot file is created by
\* load_or_create, holding the empty snapshot (never the scan's snapshot).
C5_DryRunPureExceptCreation ==
    (Started /\ dry) =>
        /\ remoteOps = {}
        /\ disk0.exists => disk = disk0
        /\ ~disk0.exists =>
              \/ disk = Stored(EmptyTracking)
              \/ pc = "load" /\ disk = Absent
              \/ cause = "create" /\ disk \in {Absent, Corrupt}

C5_Witness ==
    /\ Returned
    /\ result = "ok"
    /\ dry
    /\ updates # <<>>
    /\ newSnap # EmptyTracking
    /\ ~disk0.exists
    /\ disk = Stored(EmptyTracking)

\* C6: apply gating.  upload_files is entered, and FTP commands are issued,
\* only with dry = no_upload = false; a run with no_upload and not dry
\* issues no FTP command, reaches write whenever the snapshot was loaded,
\* and when it returns Ok the file holds the scan's new snapshot.
C6_ApplyGating ==
    /\ (pc \in {"connect", "cwdroot", "upload"} \/ remoteOps # {}) =>
          (~dry /\ ~noUpload)
    /\ (Returned /\ noUpload /\ ~dry) =>
          /\ remoteOps = {}
          /\ result = "ok" => disk = Stored(newSnap)
          /\ result = "err" => cause \in {"load", "create", "write"}

C6_Witness ==
    /\ Returned
    /\ result = "ok"
    /\ noUpload
    /\ ~dry
    /\ updates # <<>>
    /\ disk = Stored(newSnap)
    /\ disk # disk0

\* C7: per-item failure isolation.  Once upload_files is left, a failure at
\* one item (navigation, opening the local file, or the action) has not
\* kept any other item from being attempted.
C7_FailureIsolation ==
    (pc \in {"write", "idle"} /\ \E i \in DOMAIN status : status[i] = "Failed") =>
        \A j \in DOMAIN status : status[j] # "Pending"

\* The fatal errors C8 lists: the snapshot file cannot be read, the
\* connection or login fails, an error is returned from upload_files.
ListedFatal == {"load", "connect", "login", "cwd", "navigate", "open"}

\* C8 as stated: after a listed fatal error .ftp/files.json is as it was
\* when the run started.
C8_FatalKeepsSnapshot ==
    (Returned /\ result = "err" /\ cause \in ListedFatal) => disk = disk0

\* C8, amended: after a listed fatal error the new snapshot has not been
\* written: an existing snapshot file is as it was when the run started, and
\* a missing one holds the empty snapshot load_or_create created.
C8_FatalKeepsLoadedSnapshot ==
    (Returned /\ result = "err" /\ cause \in ListedFatal) =>
        disk = IF disk0.exists THEN disk0 ELSE Stored(EmptyTracking)

C8_Witness ==
    /\ Returned
    /\ result = "err"
    /\ cause \in {"navigate", "open"}
    /\ disk0.exists
    /\ disk = disk0
    /\ Stored(newSnap) # disk0

\* The action (put, mkdir, rm, rmdir) of item i returned an error.
ActionFailed(i) == status[i] = "Failed" /\ i < idx

\* C9: best-effort persistence.  A non-dry run in which actions failed, and
\* nothing else did (no navigation, local open or snapshot write error),
\* returns Ok and has persisted the scan's new snapshot.
C9_BestEffortPersistence ==
    (/\ pc = "idle"
     /\ \E i \in DOMAIN status : ActionFailed(i)
     /\ cause \notin {"navigate", "open", "write"}) =>
        (result = "ok" /\ disk = Stored(newSnap))

C9_Witness ==
    /\ Returned
    /\ result = "ok"
    /\ \E i \in DOMAIN status : ActionFailed(i)
    /\ \E i \in DOMAIN status : status[i] = "Succeeded"
    /\ disk = Stored(newSnap)
    /\ disk # disk0

\* C10 as stated, its last case: a prior snapshot whose only path is not
\* visited yields the empty snapshot.
C10_OnlyPathGoneGivesEmpty ==
    (PlanBuilt /\ Cardinality(DOMAIN loaded) = 1 /\ DOMAIN loaded \cap Visited = {}) =>
        newSnap = EmptyTracking

\* C10, amended: the new snapshot holds exactly the visited paths, each with
\* the state computed in this run, and no path still tagged Deleted; an
\* empty prior snapshot and one new file give a snapshot holding that file's
\* hash; a prior snapshot whose only path disappeared gives a snapshot
\* without that path, holding the visited entries (the walk root at least).
C10_NewSnapshotContent ==
    PlanBuilt =>
        /\ DOMAIN newSnap = Visited
        /\ \A p \in DOMAIN newSnap :
              /\ newSnap[p] = StateOf(digests, p)
              /\ files[p].mode # "Deleted"
        /\ \A p \in UserPaths :
              (loaded = EmptyTracking /\ p \in Visited /\ IsFile(p)) =>
                  newSnap[p] = File(Sha256(digests, Bytes(p)))
        /\ (Cardinality(DOMAIN loaded) = 1 /\ DOMAIN loaded \cap Visited = {}) =>
              /\ DOMAIN loaded \cap DOMAIN newSnap = {}
              /\ Root \in DOMAIN newSnap

C10_Witness ==
    /\ PlanBuilt
    /\ DOMAIN loaded = {PathA}
    /\ PathA \notin Visited
    /\ DOMAIN newSnap = {Root}
    /\ CountOf(PathA, "Delete") = 1

\* C11 as stated: a failure to read or hash a visited entry does not abort
\* the scan.  The unwrap of File::open / io::copy panics in the walker
\* thread, and the panic ends the run.
C11_ScanFailureContained == ~(result = "panic" /\ cause = "hash")

\* Walker thread v takes one of the lock scopes of FileWalk::update
\* (contains_key, get, insert) in this step.
TableAccess(v) ==
    /\ wk[v].pc \in {"contains", "get", "insert"}
    /\ wk'[v] # wk[v]

\* C12 as stated: lookup, decision and insertion form one lock scope, so
\* while a thread is between its lookup and its insertion no other thread
\* reads or writes the table.
C12_AtomicCheckAndInsert ==
    [][\A w \in Workers :
          wk[w].pc \in {"get", "insert"} =>
              \A v \in Workers \ {w} : ~TableAccess(v)]_vars

\* C13: snapshot load.  A call of load_or_create that returns Ok leaves an
\* existing file unchanged and returns the snapshot stored in it; with no
\* file it returns the empty snapshot and writes it; afterwards the file
\* exists and holds the returned snapshot, so a further call returns the
\* same snapshot and writes nothing.
C13_SnapshotLoad ==
    [][(pc = "load" /\ pc' = "walk") =>
          /\ disk.exists => (disk' = disk /\ Serialize(loaded') = disk.members)
          /\ ~disk.exists =>
                (loaded' = EmptyTracking /\ disk' = Stored(EmptyTracking))
          /\ disk'.exists /\ disk'.valid
          /\ Deserialize(disk'.members) = loaded']_vars

C13_Witness ==
    /\ pc = "walk"
    /\ run = MaxRuns
    /\ disk = disk0
    /\ \E p \in DOMAIN loaded : loaded[p] = Directory
    /\ \E p \in DOMAIN loaded : loaded[p].type = "File"

\* C16: planner projection.  The plan holds exactly one update for every
\* table entry whose mode is Created, Updated or Deleted and none for an
\* Untouched entry; Created and Updated give CreateOrUpdate, Deleted gives
\* Delete; the update carries the type of the entry's state, which for a
\* Delete is the type of the prior snapshot, so that a deleted file is
\* removed with rm and a deleted directory with rmdir.
C16_PlannerProjection ==
    PlanBuilt =>
        /\ \A i \in DOMAIN updates : updates[i].file \in DOMAIN files
        /\ \A p \in DOMAIN files :
              Cardinality({i \in DOMAIN updates : updates[i].file = p}) =
                  IF files[p].mode \in {"Created", "Updated", "Deleted"} THEN 1 ELSE 0
        /\ \A i \in DOMAIN updates :
              LET u == updates[i]
                  e == files[u.file]
              IN  /\ e.mode \in {"Created", "Updated"} => u.update_type = "CreateOrUpdate"
                  /\ e.mode = "Deleted" => u.update_type = "Delete"
                  /\ u.file_type = e.state.type
                  /\ e.mode = "Deleted" =>
                        /\ u.file_type = loaded[u.file].type
                        /\ ActionOp(u) = IF loaded[u.file].type = "File"
                                         THEN "rm" ELSE "rmdir"

C16_Witness ==
    /\ PlanBuilt
    /\ \E p \in DOMAIN files : files[p].mode = "Untouched"
    /\ \E p \in DOMAIN files : files[p].mode = "Created"
    /\ \E i \in DOMAIN updates :
          /\ updates[i].update_type = "Delete"
          /\ updates[i].file_type = "File"
          /\ ActionOp(updates[i]) = "rm"

\* The visited paths whose FileWalk::update has returned.
Completed ==
    Visited \ {wk[w].path : w \in {v \in Workers : wk[v].pc # "idle"}}

\* The table after the paths of `order` went through FileWalk::update one
\* after another.
RECURSIVE SequentialScan(_, _)
SequentialScan(table, order) ==
    IF order = <<>> THEN table
    ELSE SequentialScan(UpdateTable(table, Head(order),
                                    StateOf(digests, Head(order)), force),
                        Tail(order))

\* C17: interleaving independence of the scan.  Each path being handed to
\* one thread, at every point of the scan and at its end the table is the
\* one obtained by running FileWalk::update without interruption on the
\* completed paths one after another, in any order.
C17_InterleavingIndependence ==
    pc \in {"scan", "plan", "decide"} =>
        \A order \in Orders(Completed) :
            files = SequentialScan(FileWalkFrom(loaded), order)

C17_Witness ==
    /\ pc = "scan"
    /\ jobs >= 2
    /\ \A w \in {1, 2} : wk[w].pc \in {"get", "insert"}
    /\ \E p \in Completed : files[p].mode = "Updated"
    /\ \E p \in Completed : files[p].mode = "Created"

\* C18: a type change is a change.  A visited path that is a File in the
\* prior snapshot and a Directory now, or the reverse, is Updated with or
\* without force, has exactly one CreateOrUpdate carrying the new type and
\* no Delete, and is recorded with its new state in the new snapshot.
C18_TypeChangeIsChange ==
    PlanBuilt =>
        \A p \in Visited \cap DOMAIN loaded :
            loaded[p].type # StateOf(digests, p).type =>
                /\ files[p].mode = "Updated"
                /\ CountOf(p, "CreateOrUpdate") = 1
                /\ CountOf(p, "Delete") = 0
                /\ \A i \in DOMAIN updates :
                      updates[i].file = p =>
                          updates[i].file_type = StateOf(digests, p).type
                /\ p \in DOMAIN newSnap
                /\ newSnap[p] = StateOf(digests, p)

C18_Witness ==
    /\ PlanBuilt
    /\ ~force
    /\ PathA \in Visited \cap DOMAIN loaded
    /\ loaded[PathA].type = "File"
    /\ tree[PathA] = DirEntry
    /\ newSnap[PathA] = Directory

\* C19: table monotonicity.  No step of the scan removes a key from the
\* table or turns a mode other than Deleted back into Deleted, and the
\* get(path).unwrap() that follows contains_key(path) never panics.
C19_TableMonotonic ==
    [][pc = "scan" =>
          /\ DOMAIN files \subseteq DOMAIN files'
          /\ \A p \in DOMAIN files :
                files[p].mode # "Deleted" => files'[p].mode # "Deleted"
          /\ cause' # "get"]_vars

C19_Witness ==
    /\ pc = "scan"
    /\ jobs >= 2
    /\ wk[1].pc = "get"
    /\ wk[2].pc = "insert"
    /\ \E p \in DOMAIN files : files[p].mode # "Deleted"

\* The remote directory an update is aimed at: the remote base path joined
\* with the parent of the update's path.
TargetDir(base, p) == ButLast(RemotePath(base, p))

\* C14 as stated: whenever the navigation for an item has succeeded, the
\* remote working directory is the item's target directory, for an
\* absolute, a relative and an empty remote base path alike.
C14_NavigationReachesTarget ==
    AtItem("Executing") => remoteCwd = TargetDir(credsBase, updates[idx].file)

\* The same for an absolute remote base path only, whose RootDir component
\* makes every navigation start from "/".
C14_NavigationAbsoluteBase ==
    (AtItem("Executing") /\ credsBase # <<>> /\ credsBase[1] = "/") =>
        remoteCwd = TargetDir(credsBase, updates[idx].file)

\* The loop of upload_files has been entered and left.
UploadLeft == idx > 0 /\ pc \in {"write", "idle"}

\* C15 as stated: the items are taken in plan order, each one is Pending,
\* Navigating, Executing and then Succeeded or Failed, and once
\* upload_files has returned every item is Succeeded or Failed.
C15_ItemStateMachine ==
    /\ \A i \in DOMAIN status :
          status[i] \in {"Pending", "Navigating", "Executing", "Succeeded", "Failed"}
    /\ \A i, j \in DOMAIN status :
          (i < j /\ status[j] # "Pending") => status[i] \in {"Succeeded", "Failed"}
    /\ UploadLeft =>
          \A i \in DOMAIN status : status[i] \in {"Succeeded", "Failed"}

\* A run that applied its plan with no failure: every item with a file name
\* succeeded (the walk root has none and is skipped).
CleanRun ==
    /\ Returned
    /\ result = "ok"
    /\ ~dry
    /\ ~noUpload
    /\ updates # <<>>
    /\ \A i \in DOMAIN status :
          status[i] = IF HasFileName(updates[i].file) THEN "Succeeded" ELSE "Skipped"

\* The remote store held the prior snapshot when the run started.
MirroredAtStart ==
    RemoteUnder(credsBase, remoteFs0) = SnapshotImage(credsBase, loaded)

\* C20 as stated: after a clean run that started with the remote store
\* holding the prior snapshot, the remote store holds exactly the paths of
\* the persisted snapshot, each with its type, whatever the plan order.
C20_SnapshotMirrorsRemote ==
    (CleanRun /\ MirroredAtStart) =>
        /\ disk = Stored(newSnap)
        /\ RemoteUnder(credsBase, remoteFs) = SnapshotImage(credsBase, newSnap)

\* The same for an absolute remote base path only.
C20_MirrorAbsoluteBase ==
    (CleanRun /\ MirroredAtStart /\ credsBase # <<>> /\ credsBase[1] = "/") =>
        /\ disk = Stored(newSnap)
        /\ RemoteUnder(credsBase, remoteFs) = SnapshotImage(credsBase, newSnap)

====
